---- MODULE Spec2Model ----
(***************************************************************************)
(* StateManager of workflow/lib/state_manager.py: the task record kept in  *)
(* runs/{task-id}/state.json, and the operations that load, change and     *)
(* save it.  One task directory is modelled.  Every operation is a call of *)
(* one caller that runs through the steps of its code: load (exists, read, *)
(* parse), the in-memory change, and save (timestamp, open for writing,    *)
(* dump, close).  The file is a sequence of chunks, so that an opened, a   *)
(* half-written and an overwritten file are states of the model.          *)
(***************************************************************************)
EXTENDS Integers, Sequences, FiniteSets, TLC

VARIABLES
    file,     \* state.json: [exists, text]
    now,      \* the UTC clock read by _get_timestamp
    pc,       \* pc[p]: where caller p is in its operation
    call,     \* call[p]: the operation caller p runs, with its arguments
    mem,      \* mem[p]: the dict `state` of the running operation, <<>> before it is bound
    cont,     \* cont[p]: where control goes when the running save returns
    before,   \* before[p]: the file when the operation was called
    ret,      \* ret[p]: what the finished operation returned or raised
    calls,    \* number of operations called so far
    incs,     \* successful increment_retry calls since the record was last initialised
    unguarded, \* increment_retry calls made without can_retry having returned True
    llm       \* the LLMClient: its type, its config timeout, the last invoke

vars == <<file, now, pc, call, mem, cont, before, ret, calls, incs, unguarded, llm>>

----------------------------------------------------------------------------
(* Bounds *)

MaxCalls == 3
MaxConcCalls == 2
MaxClock == 1

Callers == {1, 2}

----------------------------------------------------------------------------
(* Values *)

TaskId == "task-1"

INIT == "INIT"
COMPLETED == "COMPLETED"
FAILED == "FAILED"

Statuses ==
    {"INIT", "DESIGNING", "DESIGNED", "IMPLEMENTING", "TESTING", "RETRYING",
     "ESCALATING", "REVIEWING", "COMPLETED", "FAILED"}

step_order == <<"design", "test_cases", "implementation", "testing", "review">>

FixedSteps == {step_order[i] : i \in 1..Len(step_order)}

DefaultMaxRetries == 3

\* Values of a step's open-ended dict, tagged by their Python kind.
StrV(s) == [t |-> "str", s |-> s]
IntV(n) == [t |-> "int", n |-> n]
EmptyList == [t |-> "list", items |-> <<>>]
PyNone == [t |-> "none"]
\* A value json cannot encode (such as object()).
Unserializable == [t |-> "object"]

\* d.get(k): the value under k, None when d has no key k.
Get(d, k) == IF k \in DOMAIN d THEN d[k] ELSE PyNone

\* d.get(k, default)
GetOr(d, k, default) == IF k \in DOMAIN d THEN d[k] ELSE default

\* Mutant of Timestamp: a clock that lags one tick behind.
TimestampLagging == IF now > 0 THEN now - 1 ELSE now

\* _get_timestamp: the current time.
Timestamp == now

InitialSteps ==
    [n \in FixedSteps |->
        CASE n = "implementation" ->
                [status |-> StrV("pending"), attempt |-> IntV(0)]
          [] n = "testing" ->
                [status |-> StrV("pending"), results |-> EmptyList]
          [] OTHER -> [status |-> StrV("pending")]]

\* Mutant of FreshState: the last step of the pipeline is left out.
FreshStateWithoutReview(max_retries, timestamp) ==
    [task_id     |-> TaskId,
     status      |-> INIT,
     created_at  |-> timestamp,
     updated_at  |-> timestamp,
     steps       |-> [n \in FixedSteps \ {"review"} |-> InitialSteps[n]],
     escalation  |-> [count |-> 0, history |-> <<>>],
     retry_count |-> 0,
     max_retries |-> max_retries]

\* Mutant of FreshState: the max_retries argument is ignored.
FreshStateDefaultRetries(max_retries, timestamp) ==
    [task_id     |-> TaskId,
     status      |-> INIT,
     created_at  |-> timestamp,
     updated_at  |-> timestamp,
     steps       |-> InitialSteps,
     escalation  |-> [count |-> 0, history |-> <<>>],
     retry_count |-> 0,
     max_retries |-> DefaultMaxRetries]

\* The dict init_state builds, before save stamps updated_at again.
FreshState(max_retries, timestamp) ==
    [task_id     |-> TaskId,
     status      |-> INIT,
     created_at  |-> timestamp,
     updated_at  |-> timestamp,
     steps       |-> InitialSteps,
     escalation  |-> [count |-> 0, history |-> <<>>],
     retry_count |-> 0,
     max_retries |-> max_retries]

----------------------------------------------------------------------------
(* The text of state.json *)

\* The top-level keys in the order json.dump writes them (the dict's order).
ChunkKeys ==
    <<"{", "task_id", "status", "created_at", "updated_at", "steps",
      "escalation", "retry_count", "max_retries", "}">>

NChunks == Len(ChunkKeys)

Chunk(k, v) == [k |-> k, v |-> v]

\* json.dump(state, f, indent=2): the text, one chunk per top-level member.
Serialize(state) ==
    << Chunk("{", ""),
       Chunk("task_id", state.task_id),
       Chunk("status", state.status),
       Chunk("created_at", state.created_at),
       Chunk("updated_at", state.updated_at),
       Chunk("steps", state.steps),
       Chunk("escalation", state.escalation),
       Chunk("retry_count", state.retry_count),
       Chunk("max_retries", state.max_retries),
       Chunk("}", "") >>

\* Whether json can encode the member: no step field holds an object.
Encodable(chunk) ==
    chunk.k = "steps" =>
        \A n \in DOMAIN chunk.v : \A f \in DOMAIN chunk.v[n] :
            chunk.v[n][f] # Unserializable

\* The chunks json.dump writes before it raises TypeError; all of them when
\* every member is encodable.
Dumped(state) ==
    LET text == Serialize(state)
        bad == {i \in 1..Len(text) : ~Encodable(text[i])}
    IN  IF bad = {} THEN text
        ELSE SubSeq(text, 1, (CHOOSE i \in bad : \A j \in bad : i <= j) - 1)

\* Bytes left behind a write that is shorter than what the file holds.
StaleTail == Chunk("#stale", "")

RECURSIVE Members(_, _)
\* The number of entries of the dicts d[x], x in S, and of their fields.
Members(d, S) ==
    IF S = {} THEN 0
    ELSE LET x == CHOOSE y \in S : TRUE
         IN  1 + Cardinality(DOMAIN d[x]) + Members(d, S \ {x})

\* The length of a chunk's text, counted in the members it spells out.
Weight(chunk) ==
    1 + CASE chunk.k = "steps" -> Members(chunk.v, DOMAIN chunk.v)
          [] chunk.k = "escalation" ->
                Members(chunk.v.history, DOMAIN chunk.v.history)
          [] OTHER -> 0

RECURSIVE Size(_)
\* The length of a text.
Size(text) == IF text = <<>> THEN 0 ELSE Weight(Head(text)) + Size(Tail(text))

\* The text the file holds after `written` goes out at offset 0 of a file that
\* holds `present`.  open("w") emptied the file, so `present` is not empty only
\* when another writer wrote in between; where it is the longer of the two, its
\* bytes beyond the end of `written` stay in the file.
Flushed(written, present) ==
    IF written = <<>> THEN present
    ELSE IF Size(present) > Size(written) THEN Append(written, StaleTail)
    ELSE written

\* How many chunks reach the file when the write fails: none, or all but the
\* last.
ShortWrites == {0, NChunks - 1}

\* json.load accepts the text: one complete object and nothing else.
WellFormed(text) ==
    /\ Len(text) = NChunks
    /\ \A i \in 1..NChunks : text[i].k = ChunkKeys[i]

\* Mutant of Parse: the retry count is not read back.
ParseLosingRetries(text) ==
    [task_id     |-> text[2].v,
     status      |-> text[3].v,
     created_at  |-> text[4].v,
     updated_at  |-> text[5].v,
     steps       |-> text[6].v,
     escalation  |-> text[7].v,
     retry_count |-> 0,
     max_retries |-> text[9].v]

\* json.load(f) of a well-formed text.
Parse(text) ==
    [task_id     |-> text[2].v,
     status      |-> text[3].v,
     created_at  |-> text[4].v,
     updated_at  |-> text[5].v,
     steps       |-> text[6].v,
     escalation  |-> text[7].v,
     retry_count |-> text[8].v,
     max_retries |-> text[9].v]

Absent == [exists |-> FALSE, text |-> <<>>]

Readable(f) == f.exists /\ WellFormed(f.text)

Corrupt(f) == f.exists /\ ~WellFormed(f.text)

\* The record a load of file f returns.
Record(f) == Parse(f.text)

----------------------------------------------------------------------------
(* The in-memory changes of the operations *)

\* Mutant of UpdateStatus: a new status starts the retries over.
UpdateStatusResettingRetry(state, new_status) ==
    [state EXCEPT !.status = new_status, !.retry_count = 0]

\* Mutant of UpdateStatus: a terminal status cannot be left.
UpdateStatusKeepingTerminal(state, new_status) ==
    IF state.status \in {COMPLETED, FAILED}
    THEN state
    ELSE [state EXCEPT !.status = new_status]

\* update_status: state["status"] = new_status
UpdateStatus(state, new_status) == [state EXCEPT !.status = new_status]

\* Mutant of UpdateStep: the steps dict is rebuilt with the named step alone.
UpdateStepDroppingOthers(state, step_name, kwargs) ==
    [state EXCEPT !.steps = [n \in {step_name} |-> kwargs]]

\* Mutant of UpdateStep: the step's dict is replaced by the keyword arguments.
UpdateStepOverwriting(state, step_name, kwargs) ==
    [state EXCEPT !.steps =
        [n \in DOMAIN state.steps \cup {step_name} |->
            IF n = step_name THEN kwargs ELSE state.steps[n]]]

\* update_step: create the step when absent, then set every keyword argument.
UpdateStep(state, step_name, kwargs) ==
    LET old == IF step_name \in DOMAIN state.steps
               THEN state.steps[step_name] ELSE <<>>
        new == [f \in DOMAIN old \cup DOMAIN kwargs |->
                   IF f \in DOMAIN kwargs THEN kwargs[f] ELSE old[f]]
    IN  [state EXCEPT !.steps =
            [n \in DOMAIN state.steps \cup {step_name} |->
                IF n = step_name THEN new ELSE state.steps[n]]]

\* Mutant of IncrementRetry: the limit moves up with the count.
IncrementRetryExtendingLimit(state) ==
    [state EXCEPT !.retry_count = GetOr(state, "retry_count", 0) + 1,
                  !.max_retries = @ + 1]

\* increment_retry: state["retry_count"] = state.get("retry_count", 0) + 1
IncrementRetry(state) ==
    [state EXCEPT !.retry_count = GetOr(state, "retry_count", 0) + 1]

\* Mutant of EscalationEntry: an empty response is dropped like None.
EscalationEntryIfTruthy(timestamp, reason, response) ==
    IF response # PyNone /\ response.s # ""
    THEN [timestamp |-> timestamp, reason |-> reason, response |-> response.s]
    ELSE [timestamp |-> timestamp, reason |-> reason]

\* The entry add_escalation builds; response is kept only when not None.
EscalationEntry(timestamp, reason, response) ==
    IF response # PyNone
    THEN [timestamp |-> timestamp, reason |-> reason, response |-> response.s]
    ELSE [timestamp |-> timestamp, reason |-> reason]

\* Mutant of AddEscalation: the entry is appended and count is left alone.
AddEscalationWithoutCount(state, entry) ==
    [state EXCEPT !.escalation.history = Append(state.escalation.history, entry)]

\* add_escalation: count + 1 and the entry appended to history.
AddEscalation(state, entry) ==
    [state EXCEPT
        !.escalation.count = GetOr(state.escalation, "count", 0) + 1,
        !.escalation.history = Append(state.escalation.history, entry)]

\* The positions of step_order whose step is present with the given status.
StepsWithStatus(state, status) ==
    {i \in 1..Len(step_order) :
        /\ step_order[i] \in DOMAIN state.steps
        /\ Get(state.steps[step_order[i]], "status") = StrV(status)}

First(S) == CHOOSE i \in S : \A j \in S : i <= j

\* Mutant of GetCurrentStep: pending steps are looked for first.
GetCurrentStepPendingFirst(state) ==
    IF StepsWithStatus(state, "pending") # {}
    THEN step_order[First(StepsWithStatus(state, "pending"))]
    ELSE IF StepsWithStatus(state, "in_progress") # {}
    THEN step_order[First(StepsWithStatus(state, "in_progress"))]
    ELSE step_order[Len(step_order)]

\* get_current_step after its load.
GetCurrentStep(state) ==
    IF StepsWithStatus(state, "in_progress") # {}
    THEN step_order[First(StepsWithStatus(state, "in_progress"))]
    ELSE IF StepsWithStatus(state, "pending") # {}
    THEN step_order[First(StepsWithStatus(state, "pending"))]
    ELSE step_order[Len(step_order)]

\* Mutant of CanRetry: the limit is not looked at.
CanRetryIgnoringLimit(state) == state.retry_count >= 0

\* Mutant of CanRetry: one retry too many.
CanRetryInclusive(state) ==
    GetOr(state, "retry_count", 0) <= GetOr(state, "max_retries", DefaultMaxRetries)

\* can_retry after its load.
CanRetry(state) ==
    GetOr(state, "retry_count", 0) < GetOr(state, "max_retries", DefaultMaxRetries)

\* is_completed / is_failed after their load.
IsCompleted(state) == GetOr(state, "status", "") = COMPLETED

IsFailed(state) == GetOr(state, "status", "") = FAILED

----------------------------------------------------------------------------
(* The calls a caller makes *)

\* The steps, statuses and field sets the callers pass: one fixed step with the
\* default shape, one with an extra field, and one name init_state does not know.
StepNames == {"design", "implementation", "deploy"}

StepKwargs ==
    { [status |-> StrV("in_progress"), attempt |-> IntV(1)],
      [status |-> StrV("completed")],
      [note |-> Unserializable] }

NewStatuses == {"DESIGNING", COMPLETED, FAILED}

Escalations ==
    { [reason |-> "reason A", response |-> PyNone],
      [reason |-> "reason B", response |-> StrV("resp")] }

MaxRetriesArgs == {0, 1}

Reads == {"load", "get_current_step", "can_retry", "is_completed", "is_failed"}

Mutators == {"update_status", "update_step", "increment_retry", "add_escalation"}

AllCalls ==
    {[op |-> "init_state", max_retries |-> m] : m \in MaxRetriesArgs}
    \cup {[op |-> o] : o \in Reads \cup {"increment_retry"}}
    \cup {[op |-> "update_status", new_status |-> s] : s \in NewStatuses}
    \cup {[op |-> "update_step", step_name |-> n, kwargs |-> k] :
             n \in StepNames, k \in StepKwargs}
    \cup {[op |-> "add_escalation", reason |-> e.reason, response |-> e.response] :
             e \in Escalations}

\* The calls of two callers that race on the task.
RacingCalls ==
    {[op |-> o] : o \in {"load", "increment_retry"}}
    \cup {[op |-> "update_status", new_status |-> "DESIGNING"],
          [op |-> "add_escalation", reason |-> "reason A", response |-> PyNone]}

NoCall == [op |-> "none"]

Returned(v) == [raised |-> "", value |-> v]

Raised(e) == [raised |-> e]

NoRet == [raised |-> "none"]

Failed(p) == pc[p] = "done" /\ ret[p].raised # ""

Succeeded(p) == pc[p] = "done" /\ ret[p].raised = ""

\* No LLMClient has been constructed.
NoClient == [llm_type |-> "none"]

----------------------------------------------------------------------------
(* The steps of an operation *)

Init ==
    /\ file = Absent
    /\ now = 0
    /\ pc = [p \in Callers |-> "idle"]
    /\ call = [p \in Callers |-> NoCall]
    /\ mem = [p \in Callers |-> <<>>]
    /\ cont = [p \in Callers |-> "done"]
    /\ before = [p \in Callers |-> Absent]
    /\ ret = [p \in Callers |-> NoRet]
    /\ calls = 0
    /\ incs = 0
    /\ unguarded = 0
    /\ llm = NoClient

\* Time passes.
Tick ==
    /\ now < MaxClock
    /\ now' = now + 1
    /\ UNCHANGED <<file, pc, call, mem, cont, before, ret, calls, incs, llm, unguarded>>

\* Caller p calls operation c: init_state starts at once, every other
\* operation starts with self.load().
Call(p, c) ==
    /\ pc[p] = "idle"
    /\ pc' = [pc EXCEPT ![p] = IF c.op = "init_state" THEN "init" ELSE "load"]
    /\ call' = [call EXCEPT ![p] = c]
    /\ before' = [before EXCEPT ![p] = file]
    /\ cont' = [cont EXCEPT ![p] = "done"]
    /\ calls' = calls + 1
    /\ UNCHANGED <<file, now, mem, ret, incs, llm, unguarded>>

\* Mutant of Load: a text that cannot be parsed is replaced by a fresh record.
LoadOrRepair(p) ==
    /\ pc[p] = "load"
    /\ IF ~file.exists \/ ~WellFormed(file.text)
       THEN /\ pc' = [pc EXCEPT ![p] = "init"]
            /\ UNCHANGED <<mem, ret>>
       ELSE /\ pc' = [pc EXCEPT ![p] = "modify"]
            /\ mem' = [mem EXCEPT ![p] = <<Parse(file.text)>>]
            /\ UNCHANGED ret
    /\ UNCHANGED <<file, now, call, cont, before, calls, incs, llm, unguarded>>

\* load: no file, so init_state(); else open and json.load, which raises on a
\* text it cannot parse.
Load(p) ==
    /\ pc[p] = "load"
    /\ IF ~file.exists
       THEN /\ pc' = [pc EXCEPT ![p] = "init"]
            /\ UNCHANGED <<mem, ret>>
       ELSE IF ~WellFormed(file.text)
       THEN /\ pc' = [pc EXCEPT ![p] = "done"]
            /\ ret' = [ret EXCEPT ![p] = Raised("JSONDecodeError")]
            /\ UNCHANGED mem
       ELSE /\ pc' = [pc EXCEPT ![p] = "modify"]
            /\ mem' = [mem EXCEPT ![p] = <<Parse(file.text)>>]
            /\ UNCHANGED ret
    /\ UNCHANGED <<file, now, call, cont, before, calls, incs, llm, unguarded>>

\* init_state up to its self.save(state): the fresh dict.  Called by load it
\* takes the default max_retries and returns into the calling operation.
InitState(p) ==
    /\ pc[p] = "init"
    /\ mem' = [mem EXCEPT ![p] =
                  <<FreshState(IF call[p].op = "init_state"
                               THEN call[p].max_retries
                               ELSE DefaultMaxRetries, Timestamp)>>]
    /\ cont' = [cont EXCEPT ![p] =
                   IF call[p].op = "init_state" THEN "done" ELSE "modify"]
    /\ pc' = [pc EXCEPT ![p] = "open"]
    /\ UNCHANGED <<file, now, call, before, ret, calls, incs, llm, unguarded>>

\* What the operation does to the loaded dict before it saves.
Changed(c, state, timestamp) ==
    CASE c.op = "update_status" -> UpdateStatus(state, c.new_status)
      [] c.op = "update_step" -> UpdateStep(state, c.step_name, c.kwargs)
      [] c.op = "increment_retry" -> IncrementRetry(state)
      [] c.op = "add_escalation" ->
            AddEscalation(state, EscalationEntry(timestamp, c.reason, c.response))

\* What a read returns from the loaded dict.
Answer(c, state) ==
    CASE c.op = "load" -> state
      [] c.op = "get_current_step" -> GetCurrentStep(state)
      [] c.op = "can_retry" -> CanRetry(state)
      [] c.op = "is_completed" -> IsCompleted(state)
      [] c.op = "is_failed" -> IsFailed(state)

\* Mutant of Modify: a read saves the dict it loaded before it returns.
ModifyThenSave(p) ==
    /\ pc[p] = "modify"
    /\ IF call[p].op \in Reads
       THEN /\ pc' = [pc EXCEPT ![p] = "done"]
            /\ ret' = [ret EXCEPT ![p] = Returned(Answer(call[p], mem[p][1]))]
            /\ file' = [exists |-> TRUE,
                        text |-> Serialize([mem[p][1] EXCEPT !.updated_at = Timestamp])]
            /\ UNCHANGED <<mem, cont>>
       ELSE /\ pc' = [pc EXCEPT ![p] = "open"]
            /\ mem' = [mem EXCEPT ![p] = <<Changed(call[p], mem[p][1], Timestamp)>>]
            /\ cont' = [cont EXCEPT ![p] = "done"]
            /\ UNCHANGED <<ret, file>>
    /\ UNCHANGED <<now, call, before, calls, incs, llm, unguarded>>

\* The body of the operation between its load and its save or return.
Modify(p) ==
    /\ pc[p] = "modify"
    /\ IF call[p].op \in Reads
       THEN /\ pc' = [pc EXCEPT ![p] = "done"]
            /\ ret' = [ret EXCEPT ![p] = Returned(Answer(call[p], mem[p][1]))]
            /\ UNCHANGED <<mem, cont>>
       ELSE /\ pc' = [pc EXCEPT ![p] = "open"]
            /\ mem' = [mem EXCEPT ![p] = <<Changed(call[p], mem[p][1], Timestamp)>>]
            /\ cont' = [cont EXCEPT ![p] = "done"]
            /\ UNCHANGED ret
    /\ UNCHANGED <<file, now, call, before, calls, incs, llm, unguarded>>

\* save up to open(self.state_file, "w"): mkdir, the updated_at stamp, and the
\* open, which creates the file or empties it, or fails and leaves it alone.
SaveOpen(p) ==
    /\ pc[p] = "open"
    /\ mem' = [mem EXCEPT ![p] = <<[mem[p][1] EXCEPT !.updated_at = Timestamp]>>]
    /\ \/ /\ file' = [exists |-> TRUE, text |-> <<>>]
          /\ pc' = [pc EXCEPT ![p] = "write"]
          /\ UNCHANGED ret
       \/ /\ pc' = [pc EXCEPT ![p] = "done"]
          /\ ret' = [ret EXCEPT ![p] = Raised("OSError")]
          /\ UNCHANGED file
    /\ UNCHANGED <<now, call, cont, before, calls, incs, llm, unguarded>>

\* What incs counts, when caller p's save has written the whole record.
Counted(p) ==
    IF call[p].op = "init_state" \/ cont[p] = "modify" THEN 0
    ELSE IF call[p].op = "increment_retry" THEN incs + 1
    ELSE incs

\* save from json.dump to the close of the file: the whole text reaches the
\* file, or json.dump raises on a value it cannot encode, or the write fails;
\* in both failures what was written so far stays in the file.
SaveWrite(p) ==
    /\ pc[p] = "write"
    /\ LET state == mem[p][1]
           text == Dumped(state)
       IN  IF Len(text) < NChunks
           THEN /\ file' = [exists |-> TRUE, text |-> Flushed(text, file.text)]
                /\ pc' = [pc EXCEPT ![p] = "done"]
                /\ ret' = [ret EXCEPT ![p] = Raised("TypeError")]
                /\ UNCHANGED incs
           ELSE \/ /\ file' = [exists |-> TRUE, text |-> Flushed(text, file.text)]
                   /\ pc' = [pc EXCEPT ![p] = cont[p]]
                   /\ ret' = [ret EXCEPT ![p] =
                                 IF cont[p] # "done" THEN @
                                 ELSE IF call[p].op = "save" THEN Returned(PyNone)
                                 ELSE Returned(state)]
                   /\ incs' = Counted(p)
                \/ /\ \E k \in ShortWrites :
                         file' = [exists |-> TRUE,
                                  text |-> Flushed(SubSeq(text, 1, k), file.text)]
                   /\ pc' = [pc EXCEPT ![p] = "done"]
                   /\ ret' = [ret EXCEPT ![p] = Raised("OSError")]
                   /\ UNCHANGED incs
    /\ UNCHANGED <<now, call, mem, cont, before, calls, llm, unguarded>>

\* The caller has the result or the exception.
Return(p) ==
    /\ pc[p] = "done"
    /\ pc' = [pc EXCEPT ![p] = "idle"]
    /\ call' = [call EXCEPT ![p] = NoCall]
    /\ mem' = [mem EXCEPT ![p] = <<>>]
    /\ cont' = [cont EXCEPT ![p] = "done"]
    /\ before' = [before EXCEPT ![p] = Absent]
    /\ ret' = [ret EXCEPT ![p] = NoRet]
    /\ UNCHANGED <<file, now, calls, incs, llm, unguarded>>

Step(p) ==
    \/ Load(p)
    \/ InitState(p)
    \/ Modify(p)
    \/ SaveOpen(p)
    \/ SaveWrite(p)
    \/ Return(p)

\* One caller, one operation at a time.
Next ==
    \/ Tick
    \/ \E c \in AllCalls : calls < MaxCalls /\ Call(1, c)
    \/ Step(1)

Spec == Init /\ [][Next]_vars

\* Two callers whose operations interleave step by step.
NextRace ==
    \/ Tick
    \/ \E p \in Callers : \E c \in RacingCalls : calls < MaxConcCalls /\ Call(p, c)
    \/ \E p \in Callers : Step(p)

SpecRace == Init /\ [][NextRace]_vars

\* The dicts a caller hands to save: the stored record as a load returned it,
\* or with a change the caller made to it.
SaveArgs(state) ==
    { state,
      UpdateStatus(state, "TESTING"),
      IncrementRetry(state),
      UpdateStep(state, "testing", [status |-> StrV("completed")]) }

\* Caller p calls save(state): no load, the dict is written as it is.
CallSave(p, state) ==
    /\ pc[p] = "idle"
    /\ pc' = [pc EXCEPT ![p] = "open"]
    /\ call' = [call EXCEPT ![p] = [op |-> "save", state |-> state]]
    /\ mem' = [mem EXCEPT ![p] = <<state>>]
    /\ before' = [before EXCEPT ![p] = file]
    /\ cont' = [cont EXCEPT ![p] = "done"]
    /\ calls' = calls + 1
    /\ UNCHANGED <<file, now, ret, incs, unguarded, llm>>

\* The calls made next to save.
SaveCalls ==
    {[op |-> "init_state", max_retries |-> 1],
     [op |-> "load"],
     [op |-> "increment_retry"],
     [op |-> "update_status", new_status |-> "DESIGNING"],
     [op |-> "update_step", step_name |-> "design",
      kwargs |-> [status |-> StrV("in_progress"), attempt |-> IntV(1)]],
     [op |-> "add_escalation", reason |-> "reason A", response |-> PyNone]}

\* One caller that also saves dicts itself.
NextSave ==
    \/ Tick
    \/ \E c \in SaveCalls : calls < MaxCalls /\ Call(1, c)
    \/ /\ calls < MaxCalls
       /\ Readable(file)
       /\ \E s \in SaveArgs(Record(file)) : CallSave(1, s)
    \/ Step(1)

SpecSave == Init /\ [][NextSave]_vars

\* update_status with each of the ten statuses, next to calls that give the
\* record retries and escalations to keep.
StatusCalls ==
    {[op |-> "update_status", new_status |-> s] : s \in Statuses}
        \cup {[op |-> "increment_retry"],
              [op |-> "add_escalation", reason |-> "reason A", response |-> PyNone]}

\* One caller moving the status about.
NextStatus ==
    \/ Tick
    \/ \E c \in StatusCalls : calls < MaxCalls /\ Call(1, c)
    \/ Step(1)

SpecStatus == Init /\ [][NextStatus]_vars

\* add_escalation without a response, with one, and with an empty one, next
\* to a call that leaves the history alone.
EscalationCalls ==
    {[op |-> "add_escalation", reason |-> e.reason, response |-> e.response] :
        e \in Escalations \cup {[reason |-> "reason C", response |-> StrV("")]}}
        \cup {[op |-> "update_status", new_status |-> "DESIGNING"]}

\* One caller escalating.
NextEscalation ==
    \/ Tick
    \/ \E c \in EscalationCalls : calls < MaxCalls /\ Call(1, c)
    \/ Step(1)

SpecEscalation == Init /\ [][NextEscalation]_vars

-----------------------------------------------------------------------------
(* The retry loop of an orchestrator *)

\* The number of calls the orchestrator makes.
MaxLoopCalls == 7

\* The retry limits a task is created with.
LoopRetries == {0, 1, 2}

\* The orchestrator creates the task, once.
StartTask(p, max_retries) ==
    /\ calls = 0
    /\ Call(p, [op |-> "init_state", max_retries |-> max_retries])

\* The orchestrator asks whether it may retry.
AskCanRetry(p) ==
    /\ calls > 0
    /\ calls < MaxLoopCalls
    /\ Call(p, [op |-> "can_retry"])

\* can_retry has returned True and the orchestrator calls increment_retry.
RetryAfterCanRetry(p) ==
    /\ pc[p] = "done"
    /\ call[p].op = "can_retry"
    /\ ret[p] = Returned(TRUE)
    /\ calls < MaxLoopCalls
    /\ pc' = [pc EXCEPT ![p] = "load"]
    /\ call' = [call EXCEPT ![p] = [op |-> "increment_retry"]]
    /\ before' = [before EXCEPT ![p] = file]
    /\ cont' = [cont EXCEPT ![p] = "done"]
    /\ mem' = [mem EXCEPT ![p] = <<>>]
    /\ ret' = [ret EXCEPT ![p] = NoRet]
    /\ calls' = calls + 1
    /\ UNCHANGED <<file, now, incs, llm, unguarded>>

\* increment_retry called without asking can_retry first.
UnguardedIncrement(p) ==
    /\ pc[p] = "idle"
    /\ calls > 0
    /\ calls < MaxLoopCalls
    /\ pc' = [pc EXCEPT ![p] = "load"]
    /\ call' = [call EXCEPT ![p] = [op |-> "increment_retry"]]
    /\ before' = [before EXCEPT ![p] = file]
    /\ cont' = [cont EXCEPT ![p] = "done"]
    /\ calls' = calls + 1
    /\ unguarded' = unguarded + 1
    /\ UNCHANGED <<file, now, mem, ret, incs, llm>>

\* One orchestrator driving one task.
NextLoop ==
    \/ \E m \in LoopRetries : StartTask(1, m)
    \/ AskCanRetry(1)
    \/ RetryAfterCanRetry(1)
    \/ UnguardedIncrement(1)
    \/ Step(1)

SpecLoop == Init /\ [][NextLoop]_vars

-----------------------------------------------------------------------------
(* LLMClient *)

\* The number of invoke calls made on one client.
MaxInvokes == 2

\* LLMClient.SUPPORTED_TYPES
SUPPORTED_TYPES == {"claude", "gemini", "lfm"}

\* The timeout entries of LLMClient.DEFAULT_CONFIGS.
DEFAULT_CONFIGS ==
    [claude |-> [timeout |-> IntV(120)],
     gemini |-> [timeout |-> IntV(120)],
     lfm    |-> [timeout |-> IntV(60)]]

\* The config dicts passed to the constructor: none, an empty one, and ones
\* that set the timeout.
Configs == {PyNone, [t |-> "dict"], [t |-> "dict", timeout |-> IntV(30)],
            [t |-> "dict", timeout |-> IntV(0)]}

\* The per-call timeouts passed to invoke: the default None, zero, and values
\* below and above the defaults.
TimeoutArgs == {PyNone, IntV(0), IntV(5), IntV(300)}

\* Python's truth value of None or an int.
Truthy(v) == v # PyNone /\ ~(v.t = "int" /\ v.n = 0)

\* Python's a or b.
PyOr(a, b) == IF Truthy(a) THEN a ELSE b

\* {**DEFAULT_CONFIGS[llm_type], **(config or {})}
MergedConfig(llm_type, config) ==
    IF config # PyNone /\ "timeout" \in DOMAIN config
    THEN [timeout |-> config.timeout]
    ELSE DEFAULT_CONFIGS[llm_type]

\* LLMClient(llm_type, config): ValueError for a type that is not supported.
NewClient(llm_type, config) ==
    /\ llm.llm_type = "none"
    /\ llm' = IF llm_type \in SUPPORTED_TYPES
              THEN [llm_type |-> llm_type,
                    config |-> MergedConfig(llm_type, config),
                    at |-> "ready", timeout |-> PyNone,
                    effective_timeout |-> PyNone,
                    raised |-> "", invocations |-> 0]
              ELSE [llm_type |-> "none", raised |-> "ValueError"]
    /\ UNCHANGED <<file, now, pc, call, mem, cont, before, ret, calls, incs, unguarded>>

\* invoke(prompt, system, timeout): the timeout handed to the backend call is
\* timeout or self.config.get("timeout").
Invoke(timeout) ==
    /\ llm.llm_type # "none"
    /\ llm.at = "ready"
    /\ llm.invocations < MaxInvokes
    /\ llm' = [llm EXCEPT !.at = "backend",
                          !.timeout = timeout,
                          !.effective_timeout = PyOr(timeout, llm.config.timeout),
                          !.raised = "",
                          !.invocations = @ + 1]
    /\ UNCHANGED <<file, now, pc, call, mem, cont, before, ret, calls, incs, unguarded>>

\* invoke_with_files(prompt, context_files, system, timeout): LLMError when a
\* context file is missing or unreadable, else invoke with the same timeout.
InvokeWithFiles(timeout, files_ok) ==
    IF files_ok
    THEN Invoke(timeout)
    ELSE /\ llm.llm_type # "none"
         /\ llm.at = "ready"
         /\ llm.invocations < MaxInvokes
         /\ llm' = [llm EXCEPT !.timeout = timeout,
                               !.effective_timeout = PyNone,
                               !.raised = "LLMError",
                               !.invocations = @ + 1]
         /\ UNCHANGED <<file, now, pc, call, mem, cont, before, ret, calls, incs, unguarded>>

\* _invoke_claude, _invoke_gemini, _invoke_lfm: the backend answers, or the
\* call ends in LLMError (timed out, not found, failed).
BackendReturn(ok) ==
    /\ llm.llm_type # "none"
    /\ llm.at = "backend"
    /\ llm' = [llm EXCEPT !.at = "ready",
                          !.raised = IF ok THEN "" ELSE "LLMError"]
    /\ UNCHANGED <<file, now, pc, call, mem, cont, before, ret, calls, incs, unguarded>>

\* One client, constructed once and invoked.
NextLLM ==
    \/ \E t \in SUPPORTED_TYPES \cup {"gpt"}, c \in Configs : NewClient(t, c)
    \/ \E t \in TimeoutArgs : Invoke(t)
    \/ \E t \in TimeoutArgs, ok \in BOOLEAN : InvokeWithFiles(t, ok)
    \/ \E ok \in BOOLEAN : BackendReturn(ok)

SpecLLM == Init /\ [][NextLLM]_vars

-----------------------------------------------------------------------------

\* get_current_step on a stored record whose steps hold any mix of statuses.
StepStatuses == {"pending", "in_progress", "completed"}

StepConfigs ==
    {[n \in FixedSteps |-> [InitialSteps[n] EXCEPT !.status = StrV(f[n])]] :
        f \in [FixedSteps -> StepStatuses]}

\* The same, with a step the fixed order does not name.
WithDeploy(steps) ==
    [n \in DOMAIN steps \cup {"deploy"} |->
        IF n = "deploy" THEN [status |-> StrV("in_progress")] ELSE steps[n]]

InitSteps ==
    /\ \E c \in StepConfigs : \E s \in {c, WithDeploy(c)} :
          file = [exists |-> TRUE,
                  text |-> Serialize([FreshState(DefaultMaxRetries, 0)
                                         EXCEPT !.steps = s])]
    /\ now = 0
    /\ pc = [p \in Callers |-> "idle"]
    /\ call = [p \in Callers |-> NoCall]
    /\ mem = [p \in Callers |-> <<>>]
    /\ cont = [p \in Callers |-> "done"]
    /\ before = [p \in Callers |-> Absent]
    /\ ret = [p \in Callers |-> NoRet]
    /\ calls = 0
    /\ incs = 0
    /\ unguarded = 0
    /\ llm = NoClient

NextSteps ==
    \/ calls < MaxCalls /\ Call(1, [op |-> "get_current_step"])
    \/ Load(1)
    \/ Modify(1)
    \/ Return(1)

SpecSteps == InitSteps /\ [][NextSteps]_vars

----------------------------------------------------------------------------
(* Properties *)

Saving(p) == pc[p] = "write"

Finished(p, op) == pc[p] = "done" /\ call[p].op = op

\* C1: while a save over a stored record is under way, from the open of the
\* record file to the end of the write, the file holds a complete record, so
\* that a load by another reader never meets an empty or partial one.
C1_SaveNeverExposesPartialRecord ==
    \A p \in Callers : (Saving(p) /\ Readable(before[p])) => Readable(file)

\* C2: when an operation on a stored record fails, the stored record is what
\* it was before the operation started.
C2_FailureLeavesStoredRecord ==
    \A p \in Callers : (Failed(p) /\ Readable(before[p])) => file = before[p]

\* C3: on a record file that exists and cannot be parsed, load and every
\* operation that loads raises, initialises nothing, writes nothing, and the
\* file keeps its content.
C3_CorruptRecordIsFatalAndKept ==
    \A p \in Callers :
        (/\ call[p].op \in Reads \cup Mutators
         /\ Corrupt(before[p])
         /\ pc[p] # "load")
        => /\ pc[p] = "done"
           /\ ret[p].raised = "JSONDecodeError"
           /\ mem[p] = <<>>
           /\ file = before[p]

C3_Witness ==
    \E p \in Callers :
        /\ Finished(p, "update_step")
        /\ Corrupt(before[p])
        /\ ret[p].raised = "JSONDecodeError"
        /\ file = before[p]

\* C4: in every stored record, escalation.count is the length of
\* escalation.history.
C4_CountIsHistoryLength ==
    Readable(file) =>
        Record(file).escalation.count = Len(Record(file).escalation.history)

C4_Witness ==
    /\ Readable(file)
    /\ Record(file).escalation.count = 2
    /\ Len(Record(file).escalation.history) = 2

\* C5: an operation other than init_state never leaves a stored retry_count
\* below the one stored when it was called.
C5_RetryCountNeverDecreases ==
    \A p \in Callers :
        (/\ call[p].op \in Reads \cup Mutators
         /\ Readable(before[p])
         /\ Readable(file))
        => Record(file).retry_count >= Record(before[p]).retry_count

C5_Witness ==
    \E p \in Callers :
        /\ Finished(p, "update_status")
        /\ Succeeded(p)
        /\ Readable(before[p])
        /\ Record(before[p]).retry_count = 2
        /\ Readable(file)
        /\ Record(file).retry_count = 2
        /\ file # before[p]

\* C6: the stored retry_count is the number of increment_retry calls that
\* returned since the record was initialised, and can_retry returns TRUE
\* exactly when retry_count < max_retries.
C6_RetryCountAndCanRetry ==
    /\ Readable(file) => Record(file).retry_count = incs
    /\ \A p \in Callers :
          (Finished(p, "can_retry") /\ Succeeded(p)) =>
              /\ Readable(file)
              /\ ret[p].value =
                    (Record(file).retry_count < Record(file).max_retries)

C6_Witness ==
    \E p \in Callers :
        /\ Finished(p, "can_retry")
        /\ Succeeded(p)
        /\ ret[p].value = FALSE
        /\ incs = 1
        /\ Record(file).retry_count = 1
        /\ Record(file).max_retries = 0

\* C7: when two mutating operations on the task have both returned, the
\* stored record is exactly the full record one of them wrote (the one whose
\* save ran last).
C7_LastWriteWins ==
    (\A p \in Callers : Succeeded(p) /\ call[p].op \in Mutators) =>
        \E p \in Callers : file = [exists |-> TRUE, text |-> Serialize(ret[p].value)]

StoredStatus(n) == Record(file).steps[n].status

Position(n) == CHOOSE i \in 1..Len(step_order) : step_order[i] = n

Earlier(n) == {step_order[i] : i \in 1..(Position(n) - 1)}

\* C8: get_current_step returns one of the five fixed names: the first in
\* the fixed order that is in_progress; with none in progress the first that is
\* pending; with neither, review.  Steps outside the fixed order do not count.
C8_CurrentStepByFixedOrder ==
    \A p \in Callers :
        (Finished(p, "get_current_step") /\ Succeeded(p)) =>
            LET r == ret[p].value
                inProgress == {n \in FixedSteps : StoredStatus(n) = StrV("in_progress")}
                pending == {n \in FixedSteps : StoredStatus(n) = StrV("pending")}
            IN  /\ r \in {"design", "test_cases", "implementation", "testing", "review"}
                /\ inProgress # {} =>
                      r \in inProgress /\ Earlier(r) \cap inProgress = {}
                /\ (inProgress = {} /\ pending # {}) =>
                      r \in pending /\ Earlier(r) \cap pending = {}
                /\ (inProgress = {} /\ pending = {}) => r = "review"

C8_Witness ==
    \E p \in Callers :
        /\ Finished(p, "get_current_step")
        /\ ret[p] = Returned("testing")
        /\ StoredStatus("design") = StrV("pending")
        /\ StoredStatus("testing") = StrV("in_progress")
        /\ StoredStatus("review") = StrV("in_progress")
        /\ "deploy" \in DOMAIN Record(file).steps

\* C9 as stated: get_current_step leaves the storage of the task as it was,
\* whether or not a record existed.
C9_GetCurrentStepNeverWrites ==
    \A p \in Callers : Finished(p, "get_current_step") => file = before[p]

\* C9 amended: get_current_step leaves an existing record file as it was; with
\* no record file, a call that returns has stored the initial record and
\* returns design.
C9_GetCurrentStepWritesOnlyWhenAbsent ==
    \A p \in Callers :
        Finished(p, "get_current_step") =>
            /\ before[p].exists => file = before[p]
            /\ (~before[p].exists /\ Succeeded(p)) =>
                  /\ Readable(file)
                  /\ Record(file).status = INIT
                  /\ Record(file).steps = InitialSteps
                  /\ Record(file).retry_count = 0
                  /\ ret[p].value = "design"

C9_Witness ==
    \E p \in Callers :
        /\ Finished(p, "get_current_step")
        /\ ret[p] = Returned("implementation")
        /\ Readable(before[p])
        /\ Record(before[p]).updated_at < now
        /\ file = before[p]

Pending == [status |-> StrV("pending")]

\* C10: load of a task with no record file stores and returns the initial
\* record, and a load of the stored record returns it unchanged.
C10_LoadInitialisesWhenAbsent ==
    \A p \in Callers :
        (Finished(p, "load") /\ Succeeded(p)) =>
            /\ ~before[p].exists =>
                  /\ ret[p].value.status = "INIT"
                  /\ DOMAIN ret[p].value.steps =
                        {"design", "test_cases", "implementation", "testing", "review"}
                  /\ ret[p].value.steps["design"] = Pending
                  /\ ret[p].value.steps["test_cases"] = Pending
                  /\ ret[p].value.steps["implementation"] =
                        [status |-> StrV("pending"), attempt |-> IntV(0)]
                  /\ ret[p].value.steps["testing"] =
                        [status |-> StrV("pending"), results |-> EmptyList]
                  /\ ret[p].value.steps["review"] = Pending
                  /\ ret[p].value.retry_count = 0
                  /\ ret[p].value.max_retries = 3
                  /\ ret[p].value.escalation = [count |-> 0, history |-> <<>>]
                  /\ Readable(file)
                  /\ Record(file) = ret[p].value
            /\ Readable(before[p]) =>
                  /\ ret[p].value = Record(before[p])
                  /\ file = before[p]

C10_Witness ==
    \E p \in Callers :
        /\ Finished(p, "load")
        /\ Succeeded(p)
        /\ ~before[p].exists
        /\ Readable(file)
        /\ Record(file) = ret[p].value
        /\ ret[p].value.max_retries = 3

\* C11: every stored record has a step for each of the five fixed names, and
\* no operation that loads the record stores one with fewer steps.
C11_FixedStepsAlwaysPresent ==
    /\ Readable(file) =>
          {"design", "test_cases", "implementation", "testing", "review"}
              \subseteq DOMAIN Record(file).steps
    /\ \A p \in Callers :
          (/\ call[p].op \in Reads \cup Mutators
           /\ Readable(before[p])
           /\ Readable(file))
          => DOMAIN Record(before[p]).steps \subseteq DOMAIN Record(file).steps

C11_Witness ==
    \E p \in Callers :
        /\ Finished(p, "update_step")
        /\ Succeeded(p)
        /\ call[p].step_name = "design"
        /\ Readable(before[p])
        /\ "deploy" \in DOMAIN Record(before[p]).steps
        /\ Readable(file)
        /\ DOMAIN Record(file).steps = FixedSteps \cup {"deploy"}

\* C12: after update_step(step_name, **kwargs) has returned, the stored step
\* is its previous dict (empty when the step was new) with the keyword
\* arguments laid over it, every other step is as it was, and so are status,
\* retry_count, max_retries, escalation, task_id and created_at.
C12_UpdateStepMergesAndFrames ==
    \A p \in Callers :
        (Finished(p, "update_step") /\ Succeeded(p) /\ Readable(before[p])) =>
            LET old == Record(before[p])
                new == Record(file)
                n == call[p].step_name
                k == call[p].kwargs
                known == n \in DOMAIN old.steps
                kept == IF known THEN DOMAIN old.steps[n] \ DOMAIN k ELSE {}
            IN  /\ Readable(file)
                /\ ret[p].value = new
                /\ DOMAIN new.steps = DOMAIN old.steps \cup {n}
                /\ \A m \in DOMAIN old.steps \ {n} : new.steps[m] = old.steps[m]
                /\ DOMAIN new.steps[n] = kept \cup DOMAIN k
                /\ \A f \in DOMAIN k : new.steps[n][f] = k[f]
                /\ \A f \in kept : new.steps[n][f] = old.steps[n][f]
                /\ new.status = old.status
                /\ new.retry_count = old.retry_count
                /\ new.max_retries = old.max_retries
                /\ new.escalation = old.escalation
                /\ new.task_id = old.task_id
                /\ new.created_at = old.created_at

C12_Witness ==
    \E p \in Callers :
        /\ Finished(p, "update_step")
        /\ Succeeded(p)
        /\ call[p].step_name = "implementation"
        /\ call[p].kwargs = [status |-> StrV("completed")]
        /\ Readable(before[p])
        /\ Record(before[p]).steps["implementation"] =
              [status |-> StrV("in_progress"), attempt |-> IntV(1)]
        /\ Record(file).steps["implementation"] =
              [status |-> StrV("completed"), attempt |-> IntV(1)]

\* C13: after save(state) has returned, a load returns a record equal to
\* state in every field but updated_at, and its updated_at is not before the
\* one state had, nor before the one stored when save was called.
C13_SaveLoadRoundTrip ==
    \A p \in Callers :
        (Finished(p, "save") /\ Succeeded(p)) =>
            LET saved == call[p].state
                loaded == Record(file)
            IN  /\ Readable(file)
                /\ DOMAIN loaded = DOMAIN saved
                /\ \A f \in DOMAIN saved \ {"updated_at"} : loaded[f] = saved[f]
                /\ loaded.updated_at >= saved.updated_at
                /\ Readable(before[p]) =>
                      loaded.updated_at >= Record(before[p]).updated_at

C13_Witness ==
    \E p \in Callers :
        /\ Finished(p, "save")
        /\ Succeeded(p)
        /\ call[p].state.retry_count = 2
        /\ call[p].state.updated_at = 0
        /\ Readable(file)
        /\ Record(file).retry_count = 2
        /\ Record(file).updated_at = 1

\* The record stored when the running operation was called and the one
\* stored now.
Stored(p) == Readable(before[p]) /\ Readable(file)

\* C14: the updated_at of the stored record never goes back from one write to
\* the next; every save stamps the dict with the time read at that save, and
\* that stamp is what the file holds when the write is done.
C14_UpdatedAtMonotonic ==
    /\ [](\A p \in Callers :
            (call[p] # NoCall /\ Stored(p)) =>
                Record(file).updated_at >= Record(before[p]).updated_at)
    /\ [][\A p \in Callers :
            /\ (pc[p] = "open" /\ pc'[p] = "write") =>
                  mem'[p][1].updated_at = now
            /\ (pc[p] = "write" /\ Readable(file')) =>
                  Record(file').updated_at = mem[p][1].updated_at]_vars

C14_Witness ==
    \E p \in Callers :
        /\ Finished(p, "add_escalation")
        /\ Succeeded(p)
        /\ Stored(p)
        /\ Record(before[p]).updated_at = 0
        /\ Record(file).updated_at = 1
        /\ Record(file).created_at = 0

\* C15: update_status checks no transition: from any stored status, with any
\* of the ten statuses, the call raises nothing but an I/O error of its save,
\* and once it has returned the stored status is the new one while steps,
\* retry_count, max_retries and escalation are as before.
C15_NoTransitionTable ==
    \A p \in Callers :
        (Finished(p, "update_status") /\ Readable(before[p])) =>
            /\ ret[p].raised \in {"", "OSError"}
            /\ Succeeded(p) =>
                  LET old == Record(before[p])
                      new == Record(file)
                  IN  /\ Readable(file)
                      /\ new.status = call[p].new_status
                      /\ ret[p].value.status = call[p].new_status
                      /\ new.steps = old.steps
                      /\ new.retry_count = old.retry_count
                      /\ new.max_retries = old.max_retries
                      /\ new.escalation = old.escalation

C15_Witness ==
    \E p \in Callers :
        /\ Finished(p, "update_status")
        /\ Succeeded(p)
        /\ Readable(before[p])
        /\ Record(before[p]).status = COMPLETED
        /\ Record(before[p]).retry_count = 1
        /\ call[p].new_status = "DESIGNING"
        /\ Record(file).status = "DESIGNING"

\* C16: init_state checks nothing: whatever was stored before, once it has
\* returned the stored record is the fresh one (INIT, the five steps pending,
\* no retries, no escalations, the max_retries given, created_at taken at the
\* call); load of a readable record returns it as stored and writes nothing.
C16_InitStateOverwritesLoadDoesNot ==
    \A p \in Callers :
        /\ (Finished(p, "init_state") /\ Succeeded(p)) =>
              LET new == Record(file)
              IN  /\ Readable(file)
                  /\ new.task_id = TaskId
                  /\ new.status = INIT
                  /\ new.steps = InitialSteps
                  /\ \A n \in FixedSteps :
                        new.steps[n].status = StrV("pending")
                  /\ new.retry_count = 0
                  /\ new.escalation = [count |-> 0, history |-> <<>>]
                  /\ new.max_retries = call[p].max_retries
                  /\ ret[p].value = new
                  /\ new.created_at <= new.updated_at
                  /\ new.updated_at <= now
                  /\ Readable(before[p]) =>
                        new.created_at >= Record(before[p]).updated_at
        /\ (Finished(p, "load") /\ Readable(before[p])) =>
              /\ Succeeded(p)
              /\ ret[p].value = Record(before[p])
              /\ file = before[p]

C16_Witness ==
    \E p \in Callers :
        /\ Finished(p, "init_state")
        /\ Succeeded(p)
        /\ Readable(before[p])
        /\ Record(before[p]).retry_count = 1
        /\ Record(before[p]).max_retries = 3
        /\ Record(before[p]).created_at = 0
        /\ call[p].max_retries = 0
        /\ Record(file).retry_count = 0
        /\ Record(file).max_retries = 0
        /\ Record(file).created_at = 1

\* The history stored when the running operation was called; none when the
\* task had no record yet.
HistoryBefore(p) ==
    IF Readable(before[p]) THEN Record(before[p]).escalation.history ELSE <<>>

\* C17: every add_escalation that returns has put exactly one entry at the end
\* of the stored history, the earlier entries being as they were; the entry
\* holds the call's reason, and a response field exactly when the response
\* passed is not None; count goes up by one, so k calls on a fresh task give
\* count k.
C17_HistoryAppendOnly ==
    \A p \in Callers :
        (Finished(p, "add_escalation") /\ Succeeded(p)) =>
            LET old == HistoryBefore(p)
                new == Record(file).escalation.history
                entry == new[Len(new)]
            IN  /\ Readable(file)
                /\ Len(new) = Len(old) + 1
                /\ SubSeq(new, 1, Len(old)) = old
                /\ entry.reason = call[p].reason
                /\ ("response" \in DOMAIN entry) <=> (call[p].response # PyNone)
                /\ (call[p].response # PyNone) =>
                      entry.response = call[p].response.s
                /\ Record(file).escalation.count = Len(old) + 1

C17_Witness ==
    \E p \in Callers :
        /\ Finished(p, "add_escalation")
        /\ Succeeded(p)
        /\ call[p].reason = "reason C"
        /\ LET new == Record(file).escalation.history
           IN  /\ Len(new) = 3
               /\ new[1].reason = "reason A"
               /\ "response" \notin DOMAIN new[1]
               /\ new[2].reason = "reason B"
               /\ new[2].response = "resp"
               /\ new[3].response = ""
        /\ Record(file).escalation.count = 3

\* C18: task_id, created_at and max_retries of the stored record are the same
\* during and after every call other than init_state as when it was called.
C18_CreationFieldsFixed ==
    \A p \in Callers :
        (call[p] # NoCall /\ call[p].op \in Reads \cup Mutators /\ Stored(p)) =>
            /\ Record(file).task_id = Record(before[p]).task_id
            /\ Record(file).created_at = Record(before[p]).created_at
            /\ Record(file).max_retries = Record(before[p]).max_retries

C18_Witness ==
    \E p \in Callers :
        /\ Finished(p, "increment_retry")
        /\ Succeeded(p)
        /\ Stored(p)
        /\ Record(before[p]).max_retries = 1
        /\ Record(file).max_retries = 1
        /\ Record(file).created_at = 0
        /\ Record(file).updated_at = 1
        /\ Record(file).retry_count = 1

\* C19: while the backend call of an invoke runs, its timeout is the per-call
\* timeout whenever one was passed (any integer, zero included), and the
\* configured one only when none was passed.
C19_PerCallTimeoutOverrides ==
    (llm.llm_type # "none" /\ llm.at = "backend") =>
        llm.effective_timeout =
            IF llm.timeout # PyNone THEN llm.timeout ELSE llm.config.timeout

\* C20: as long as every increment_retry followed a can_retry that returned
\* True, the stored retry_count is at most max_retries and at most
\* max_retries increments were made, and can_retry returns False once
\* max_retries increments were made; the store has no such limit itself: an
\* increment_retry on a record at or over the limit still adds one.
C20_GuardedRetryLoopIsBounded ==
    /\ (unguarded = 0 /\ Readable(file)) =>
          /\ Record(file).retry_count <= Record(file).max_retries
          /\ incs <= Record(file).max_retries
    /\ \A p \in Callers :
          /\ (Finished(p, "can_retry") /\ Succeeded(p)
                /\ incs >= Record(file).max_retries) =>
                ret[p].value = FALSE
          /\ (Finished(p, "increment_retry") /\ Stored(p)) =>
                /\ ret[p].raised \in {"", "OSError"}
                /\ Succeeded(p) =>
                      Record(file).retry_count =
                          Record(before[p]).retry_count + 1

C20_Witness ==
    \E p \in Callers :
        /\ Finished(p, "increment_retry")
        /\ Succeeded(p)
        /\ Stored(p)
        /\ unguarded = 1
        /\ Record(before[p]).max_retries = 2
        /\ Record(before[p]).retry_count = 2
        /\ Record(file).retry_count = 3

====
